---------------------------- MODULE Spec2Model ----------------------------
(***************************************************************************)
(* Model of app.py, the Bangladesh crime data dashboard: a DataFrame       *)
(* loaded once at start-up and two Dash callbacks, update_summary_cards    *)
(* and render_tab_content, that filter it and aggregate the filtered view. *)
(*                                                                         *)
(* A DataFrame is a sequence of rows; a row is a function from column      *)
(* names to values.  A Series is a sequence of [index, value] records.     *)
(* A police unit is represented by the rank of its name in alphabetical    *)
(* order, which is the order groupby('Unit') and sorted() use.             *)
(***************************************************************************)
EXTENDS Integers, Sequences, FiniteSets, TLC

VARIABLES
    df,             \* the loaded DataFrame (module global, lines 16-21)
    crime_columns,  \* the canonical category list (module global, line 24)
    police_units,   \* sorted distinct units (module global, line 30)
    unit_dropdown,  \* value of the unit-dropdown control (lines 52-57)
    year_slider,    \* value of the year-slider control (lines 62-69)
    crime_dropdown, \* value of the crime-dropdown control (lines 74-79)
    tabs,           \* value of the tabs control (line 127)
    callback,       \* the callback that ran last
    filtered_df,    \* its local filtered_df
    result          \* its other locals and the children it returned

vars == <<df, crime_columns, police_units, unit_dropdown, year_slider,
          crime_dropdown, tabs, callback, filtered_df, result>>

-----------------------------------------------------------------------------
(* Bounds of the model *)

MaxRows == 2        \* rows of a freely composed CSV file
WideUnits == 11     \* units of the generated wide CSV file
WideMonths == 5     \* months per unit of the generated wide CSV file

(* Constants of the program *)

PIE_DEFAULT == 5    \* crime_columns[:5]
TOP_UNITS == 10     \* .head(10)
PREVIEW_ROWS == 50  \* .head(50)

CRIME_COLUMNS ==
    << "Dacoity", "Robbery", "Murder", "Speedy_Trial", "Riot",
       "Woman_Child_Repression", "Kidnapping", "Police_Assault",
       "Burglary", "Theft", "Other_Cases", "Arms_Act", "Explosive_Act",
       "Narcotics", "Smuggling", "Recovery_Cases" >>

TREND_DEFAULT == << "Murder", "Robbery", "Theft" >>

MonthNames ==
    << "January", "February", "March", "April", "May", "June", "July",
       "August", "September", "October", "November", "December" >>

-----------------------------------------------------------------------------
(* Generic helpers on sequences *)

Range(s) == { s[i] : i \in 1..Len(s) }

RECURSIVE SumSeq(_)
SumSeq(s) == IF s = <<>> THEN 0 ELSE s[1] + SumSeq(Tail(s))

Min(a, b) == IF a <= b THEN a ELSE b

\* Mutant of head: one element too many.
head_one_more(s, n) == SubSeq(s, 1, Min(n + 1, Len(s)))

\* s[:n]
head(s, n) == SubSeq(s, 1, Min(n, Len(s)))

\* The integers of the finite set S in ascending order.
RECURSIVE SortInts(_)
SortInts(S) ==
    IF S = {} THEN <<>>
    ELSE LET m == CHOOSE x \in S : \A y \in S : x <= y
         IN  <<m>> \o SortInts(S \ {m})

-----------------------------------------------------------------------------
(* Loading: read_csv and the preprocessing of lines 19-21 *)

MonthNumber(name) == CHOOSE i \in 1..12 : MonthNames[i] = name

\* pd.to_datetime(Year + '-' + Month + '-01')
to_datetime(year, month) == [year |-> year, month |-> MonthNumber(month), day |-> 1]

\* Dates are ordered chronologically.
DateOrd(d) == (d.year * 12 + (d.month - 1)) * 31 + (d.day - 1)

\* One row of the CSV file: counts gives the non-zero category counts.
CsvRow(unit, year, month, counts) ==
    [c \in {"Year", "Month", "Unit", "Total_Cases"} \cup Range(CRIME_COLUMNS) |->
        CASE c = "Year" -> year
          [] c = "Month" -> month
          [] c = "Unit" -> unit
          [] c = "Total_Cases" ->
                SumSeq([i \in 1..Len(CRIME_COLUMNS) |->
                           IF CRIME_COLUMNS[i] \in DOMAIN counts
                           THEN counts[CRIME_COLUMNS[i]] ELSE 0])
          [] OTHER -> IF c \in DOMAIN counts THEN counts[c] ELSE 0]

\* Lines 19-21: the derived columns Date, Year and Month_Num.
Preprocess(csv) ==
    [i \in 1..Len(csv) |->
        LET date == to_datetime(csv[i]["Year"], csv[i]["Month"])
        IN  [c \in DOMAIN csv[i] \cup {"Date", "Month_Num"} |->
                CASE c = "Date" -> date
                  [] c = "Year" -> date.year
                  [] c = "Month_Num" -> date.month
                  [] OTHER -> csv[i][c]]]

\* Line 30: sorted(df['Unit'].unique())
SortedUnits(d) == SortInts({ d[i]["Unit"] : i \in 1..Len(d) })

-----------------------------------------------------------------------------
(* The CSV files the model loads *)

RowPool ==
    { CsvRow(1, 2021, "January", ("Murder" :> 2 @@ "Theft" :> 1)),
      CsvRow(2, 2022, "February", ("Dacoity" :> 1 @@ "Robbery" :> 1)),
      CsvRow(2, 2021, "January",
             ("Murder" :> 350 @@ "Theft" :> 350 @@ "Narcotics" :> 4)) }

SmallFiles == UNION { [1..n -> RowPool] : n \in 0..MaxRows }

\* One row per unit and month of 2021, as in the real file.
WideFile ==
    [i \in 1..(WideUnits * WideMonths) |->
        LET u == ((i - 1) \div WideMonths) + 1
            m == ((i - 1) % WideMonths) + 1
        IN  CsvRow(u, 2021, MonthNames[m],
                   ("Theft" :> ((u * 7) % 5) * 100 + m @@ "Murder" :> 1))]

\* One unit, every month of 2022.
YearFile ==
    [m \in 1..12 |-> CsvRow(1, 2022, MonthNames[m], ("Narcotics" :> m @@ "Murder" :> 12))]

CsvFiles == SmallFiles \cup {WideFile, YearFile}

-----------------------------------------------------------------------------
(* The values the controls can take *)

UnitSelections == { {}, {1}, {1, 2}, 1..WideUnits }

\* The year-slider over a two-year window, with the inverted range
YearRanges == { <<lo, hi>> : lo \in 2021..2022, hi \in 2021..2022 }

\* Line 77: the initial value of the crime-dropdown
CRIME_DEFAULT == << "Murder", "Robbery", "Narcotics", "Theft", "Woman_Child_Repression" >>

CrimeSelections == { <<>>, CRIME_DEFAULT, <<"Theft", "Murder">> }

Tabs == {"tab-overview", "tab-trends", "tab-analysis", "tab-data"}

-----------------------------------------------------------------------------
(* pandas operations *)

\* Mutant of BooleanIndex: the upper year bound excluded.
BooleanIndex_exclusive(d, selected_units, year_range) ==
    SelectSeq(d, LAMBDA r : /\ r["Unit"] \in selected_units
                            /\ r["Year"] >= year_range[1]
                            /\ r["Year"] < year_range[2])

\* Mutant of BooleanIndex: an empty unit selection taken to mean every unit.
BooleanIndex_implicit_all(d, selected_units, year_range) ==
    SelectSeq(d, LAMBDA r : /\ (selected_units = {} \/ r["Unit"] \in selected_units)
                            /\ r["Year"] >= year_range[1]
                            /\ r["Year"] <= year_range[2])

\* df[df['Unit'].isin(units) & (df['Year'] >= lo) & (df['Year'] <= hi)]
BooleanIndex(d, selected_units, year_range) ==
    SelectSeq(d, LAMBDA r : /\ r["Unit"] \in selected_units
                            /\ r["Year"] >= year_range[1]
                            /\ r["Year"] <= year_range[2])

\* d[col].sum()
ColSum(d, col) == SumSeq([i \in 1..Len(d) |-> d[i][col]])

\* d[cols].sum(): a Series indexed by cols, in the order of cols
ColSums(d, cols) == [i \in 1..Len(cols) |-> [index |-> cols[i], value |-> ColSum(d, cols[i])]]

\* The ValueError idxmax raises on an empty Series
ValueError == "ValueError"

\* Mutant of idxmax: the label of the last occurrence of the maximum.
idxmax_last(s) ==
    IF Len(s) = 0 THEN ValueError
    ELSE LET i == CHOOSE i \in 1..Len(s) :
                    /\ \A j \in 1..Len(s) : s[j].value <= s[i].value
                    /\ \A j \in (i + 1)..Len(s) : s[j].value < s[i].value
         IN  s[i].index

\* Mutant of idxmax: the label of the first occurrence of the minimum.
idxmin(s) ==
    IF Len(s) = 0 THEN ValueError
    ELSE LET i == CHOOSE i \in 1..Len(s) :
                    /\ \A j \in 1..Len(s) : s[j].value >= s[i].value
                    /\ \A j \in 1..(i - 1) : s[j].value > s[i].value
         IN  s[i].index

\* Series.idxmax(): the label of the first occurrence of the maximum
idxmax(s) ==
    IF Len(s) = 0 THEN ValueError
    ELSE LET i == CHOOSE i \in 1..Len(s) :
                    /\ \A j \in 1..Len(s) : s[j].value <= s[i].value
                    /\ \A j \in 1..(i - 1) : s[j].value < s[i].value
         IN  s[i].index

\* A float: a quotient of integers, or NaN.
NaN == [nan |-> TRUE, num |-> 0, den |-> 1]
Float(n, d) == [nan |-> FALSE, num |-> n, den |-> d]

\* Series.mean() of a sequence of integers: NaN when it is empty
mean(values) == IF Len(values) = 0 THEN NaN ELSE Float(SumSeq(values), Len(values))

\* The group key of row r under groupby(by); by is a column name, or
\* "Year,Month" for groupby(['Year', 'Month'])
KeyOf(r, by) == IF by = "Year,Month" THEN <<r["Year"], r["Month"]>> ELSE r[by]

\* The rank of a group key in the order groupby sorts the groups in.  The
\* (Year, Month) groups are ranked chronologically; pandas sorts the month
\* names alphabetically, which changes no sum and no mean over the groups.
KeyOrd(by, k) ==
    CASE by = "Date" -> DateOrd(k)
      [] by = "Year,Month" -> k[1] * 12 + MonthNumber(k[2])
      [] OTHER -> k

\* The distinct group keys of d, ascending
GroupKeys(d, by) ==
    LET keys == { KeyOf(d[i], by) : i \in 1..Len(d) }
        ords == SortInts({ KeyOrd(by, k) : k \in keys })
    IN  [g \in 1..Len(ords) |-> CHOOSE k \in keys : KeyOrd(by, k) = ords[g]]

\* The rows of d in the group of key k, in the order of d
Group(d, by, k) == SelectSeq(d, LAMBDA r : KeyOf(r, by) = k)

\* d.groupby(by)[col].sum(): one entry per distinct key, ascending by key
GroupSum(d, by, col) ==
    LET keys == GroupKeys(d, by)
    IN  [g \in 1..Len(keys) |->
            [index |-> keys[g], value |-> ColSum(Group(d, by, keys[g]), col)]]

\* d.groupby(by)[col].mean()
GroupMean(d, by, col) ==
    LET keys == GroupKeys(d, by)
    IN  [g \in 1..Len(keys) |->
            [index |-> keys[g],
             value |-> LET grp == Group(d, by, keys[g])
                       IN  mean([i \in 1..Len(grp) |-> grp[i][col]])]]

Values(s) == [i \in 1..Len(s) |-> s[i].value]
Index(s) == [i \in 1..Len(s) |-> s[i].index]

-----------------------------------------------------------------------------
(* Formatting *)

\* round(x) to an integer, halves to even, as the format spec .0f does
RoundHalfEven(x) ==
    LET q == x.num \div x.den
        r == x.num % x.den
    IN  IF 2 * r < x.den THEN q
        ELSE IF 2 * r > x.den THEN q + 1
        ELSE IF q % 2 = 0 THEN q ELSE q + 1

Pad3(n) == IF n < 10 THEN "00" \o ToString(n)
           ELSE IF n < 100 THEN "0" \o ToString(n) ELSE ToString(n)

\* the digits of n >= 0 in groups of three separated by commas
RECURSIVE Thousands(_)
Thousands(n) ==
    IF n < 1000 THEN ToString(n)
    ELSE Thousands(n \div 1000) \o "," \o Pad3(n % 1000)

\* f"{x:,.0f}"
format_0f(x) == IF x.nan THEN "nan" ELSE Thousands(RoundHalfEven(x))


\* DataFrame.round(decimals): every numeric column of the frame holds
\* integers, which rounding to two decimals leaves as they are; the result
\* is a new frame.
round(d, decimals) == [i \in 1..Len(d) |-> [c \in DOMAIN d[i] |-> d[i][c]]]

\* Series.sort_values(ascending=False); equal values keep their order, as
\* the sort does on the short Series of unit totals
RECURSIVE sort_values_desc(_)
sort_values_desc(s) ==
    IF s = <<>> THEN <<>>
    ELSE LET i == CHOOSE i \in 1..Len(s) :
                    /\ \A j \in 1..Len(s) : s[j].value <= s[i].value
                    /\ \A j \in 1..(i - 1) : s[j].value < s[i].value
         IN  <<s[i]>> \o sort_values_desc(SubSeq(s, 1, i - 1) \o SubSeq(s, i + 1, Len(s)))

-----------------------------------------------------------------------------
(* Chart functions: a figure is modelled by the data it plots *)

\* Mutant of create_crime_pie_chart: every category when none is selected.
create_crime_pie_chart_all(view, selected_crimes) ==
    LET crimes == IF selected_crimes = <<>> THEN crime_columns ELSE selected_crimes
        crime_totals == ColSums(view, crimes)
    IN  [title |-> "Crime Type Distribution",
         names |-> Index(crime_totals),
         values |-> Values(crime_totals)]

\* Lines 138-151
create_crime_pie_chart(view, selected_crimes) ==
    LET crimes == IF selected_crimes = <<>>
                  THEN head(crime_columns, PIE_DEFAULT) ELSE selected_crimes
        crime_totals == ColSums(view, crimes)
    IN  [title |-> "Crime Type Distribution",
         names |-> Index(crime_totals),
         values |-> Values(crime_totals)]

\* Lines 153-163
create_monthly_trend_chart(view) ==
    LET monthly_data == GroupSum(view, "Date", "Total_Cases")
    IN  [title |-> "Monthly Crime Trend",
         x |-> Index(monthly_data),
         y |-> Values(monthly_data)]

\* Mutant of unit_totals: the sort forgotten, the units left in name order.
unit_totals_unsorted(view) ==
    head(GroupSum(view, "Unit", "Total_Cases"), TOP_UNITS)

\* Line 166: the aggregate create_top_units_chart plots
unit_totals(view) ==
    head(sort_values_desc(GroupSum(view, "Unit", "Total_Cases")),
         TOP_UNITS)

\* Lines 165-177
create_top_units_chart(view) ==
    [title |-> "Top 10 Police Units",
     x |-> Values(unit_totals(view)),
     y |-> Index(unit_totals(view))]

\* Lines 179-201: one trace per selected crime over the dates of the view
create_crime_trends_chart(view, selected_crimes) ==
    LET crimes == IF selected_crimes = <<>> THEN TREND_DEFAULT ELSE selected_crimes
    IN  [title |-> "Crime Trends Over Time",
         traces |-> [t \in 1..Len(crimes) |->
            LET monthly_crimes == GroupSum(view, "Date", crimes[t])
            IN  [name |-> crimes[t],
                 x |-> Index(monthly_crimes),
                 y |-> Values(monthly_crimes)]]]

\* Mutant of create_seasonal_patterns_chart: the averages reindexed to the
\* twelve months, NaN where the view has no row of the month.
create_seasonal_patterns_chart_reindexed(view) ==
    [title |-> "Seasonal Patterns",
     x |-> [m \in 1..12 |-> m],
     y |-> [m \in 1..12 |->
              LET grp == Group(view, "Month_Num", m)
              IN  mean([i \in 1..Len(grp) |-> grp[i]["Total_Cases"]])],
     tickvals |-> [i \in 1..12 |-> i]]

\* Lines 203-218
create_seasonal_patterns_chart(view) ==
    LET monthly_avg == GroupMean(view, "Month_Num", "Total_Cases")
    IN  [title |-> "Seasonal Patterns",
         x |-> Index(monthly_avg),
         y |-> Values(monthly_avg),
         tickvals |-> [i \in 1..12 |-> i]]

-----------------------------------------------------------------------------
(* The callbacks *)

\* Lines 236-246: the locals and the four children returned
SummaryCards(view) ==
    LET total_cases == ColSum(view, "Total_Cases")
        avg_monthly == mean(Values(GroupSum(view, "Year,Month", "Total_Cases")))
        peak_crime == idxmax(ColSums(view, crime_columns))
        total_units == Cardinality({ view[i]["Unit"] : i \in 1..Len(view) })
    IN  [raised |-> peak_crime = ValueError,
         total_cases |-> total_cases,
         avg_monthly |-> avg_monthly,
         peak_crime |-> peak_crime,
         total_units |-> total_units,
         children |-> IF peak_crime = ValueError THEN <<>>
                      ELSE << format_0f(Float(total_cases, 1)),
                              format_0f(avg_monthly),
                              peak_crime,
                              ToString(total_units) >>]

\* Mutant of update_summary_cards: the filter applied to df in place.
update_summary_cards_in_place(selected_units, year_range) ==
    /\ unit_dropdown' = selected_units
    /\ year_slider' = year_range
    /\ callback' = "update_summary_cards"
    /\ df' = BooleanIndex(df, selected_units, year_range)
    /\ filtered_df' = BooleanIndex(df, selected_units, year_range)
    /\ result' = SummaryCards(BooleanIndex(df, selected_units, year_range))
    /\ UNCHANGED <<crime_columns, police_units, crime_dropdown, tabs>>

\* Lines 229-246
update_summary_cards(selected_units, year_range) ==
    /\ unit_dropdown' = selected_units
    /\ year_slider' = year_range
    /\ callback' = "update_summary_cards"
    /\ filtered_df' = BooleanIndex(df, selected_units, year_range)
    /\ result' = SummaryCards(BooleanIndex(df, selected_units, year_range))
    /\ UNCHANGED <<df, crime_columns, police_units, crime_dropdown, tabs>>

\* Lines 262-323: the children of the selected tab
TabContent(view, selected_tab, selected_crimes) ==
    CASE selected_tab = "tab-overview" ->
            [raised |-> FALSE,
             children |-> << create_crime_pie_chart(view, selected_crimes),
                             create_monthly_trend_chart(view) >>]
      [] selected_tab = "tab-trends" ->
            [raised |-> FALSE,
             children |-> << create_crime_trends_chart(view, selected_crimes) >>]
      [] selected_tab = "tab-analysis" ->
            [raised |-> FALSE,
             children |-> << create_seasonal_patterns_chart(view) >>]
      [] selected_tab = "tab-data" ->
            LET display_df == head(view, PREVIEW_ROWS)
            IN  [raised |-> FALSE,
                 children |-> << [header |-> "Filtered Data (First 50 rows)",
                                  showing |-> "Showing " \o ToString(Len(display_df)) \o " rows",
                                  table |-> round(display_df, 2)] >>]

\* Lines 255-323
render_tab_content(selected_tab, selected_units, year_range, selected_crimes) ==
    /\ tabs' = selected_tab
    /\ unit_dropdown' = selected_units
    /\ year_slider' = year_range
    /\ crime_dropdown' = selected_crimes
    /\ callback' = "render_tab_content"
    /\ filtered_df' = BooleanIndex(df, selected_units, year_range)
    /\ result' = TabContent(BooleanIndex(df, selected_units, year_range),
                            selected_tab, selected_crimes)
    /\ UNCHANGED <<df, crime_columns, police_units>>

-----------------------------------------------------------------------------
(* The dashboard *)

\* Lines 16-30 and the initial layout (lines 55, 66, 77, 89-119, 127)
Init ==
    /\ \E csv \in CsvFiles :
         /\ df = Preprocess(csv)
         /\ police_units = SortedUnits(Preprocess(csv))
    /\ crime_columns = CRIME_COLUMNS
    /\ unit_dropdown = {1, 2}
    /\ year_slider = <<2021, 2022>>
    /\ crime_dropdown = CRIME_DEFAULT
    /\ tabs = "tab-overview"
    /\ callback = "none"
    /\ filtered_df = <<>>
    /\ result = [raised |-> FALSE, children |-> <<"0", "0", "-", "0">>]

\* The number of controls whose value a user interaction changes
Changed(t, u, y, c) ==
    (IF t = tabs THEN 0 ELSE 1) + (IF u = unit_dropdown THEN 0 ELSE 1)
    + (IF y = year_slider THEN 0 ELSE 1) + (IF c = crime_dropdown THEN 0 ELSE 1)

\* The browser calls a callback when the user has changed one of its Inputs
\* (lines 226-227, 250-253), with the current values of all of them.
Next ==
    \/ \E u \in UnitSelections, y \in YearRanges :
         /\ Changed(tabs, u, y, crime_dropdown) <= 1
         /\ update_summary_cards(u, y)
    \/ \E t \in Tabs, u \in UnitSelections, y \in YearRanges, c \in CrimeSelections :
         /\ Changed(t, u, y, c) <= 1
         /\ render_tab_content(t, u, y, c)

Spec == Init /\ [][Next]_vars

\* create_top_units_chart, which no tab shows, applied to the filtered view
\* of a selection
apply_create_top_units_chart(selected_units, year_range) ==
    /\ unit_dropdown' = selected_units
    /\ year_slider' = year_range
    /\ callback' = "create_top_units_chart"
    /\ filtered_df' = BooleanIndex(df, selected_units, year_range)
    /\ result' = [raised |-> FALSE,
                  children |-> << create_top_units_chart(
                                    BooleanIndex(df, selected_units, year_range)) >>]
    /\ UNCHANGED <<df, crime_columns, police_units, crime_dropdown, tabs>>

NextUnits ==
    \E u \in UnitSelections, y \in YearRanges : apply_create_top_units_chart(u, y)

SpecUnits == Init /\ [][NextUnits]_vars

-----------------------------------------------------------------------------
(* Properties *)

IsCards == callback = "update_summary_cards"
IsTab(t) == callback = "render_tab_content" /\ tabs = t

\* The filter of the selection, stated row by row
Selected(r) ==
    /\ r["Unit"] \in unit_dropdown
    /\ year_slider[1] <= r["Year"]
    /\ r["Year"] <= year_slider[2]

\* The rows of df that satisfy the selection, in the order of df
SelectedRows ==
    LET idx == SortInts({ i \in 1..Len(df) : Selected(df[i]) })
    IN  [k \in 1..Len(idx) |-> df[idx[k]]]

\* The sum of column col over the rows of the view that satisfy P
SumWhere(col, P(_)) ==
    SumSeq([i \in 1..Len(filtered_df) |->
              IF P(filtered_df[i]) THEN filtered_df[i][col] ELSE 0])

ColumnSum(col) == SumWhere(col, LAMBDA r : TRUE)

IndexOf(seq, x) == CHOOSE i \in 1..Len(seq) : seq[i] = x

UnitsInView == { filtered_df[i]["Unit"] : i \in 1..Len(filtered_df) }
MonthsInView == { filtered_df[i]["Month_Num"] : i \in 1..Len(filtered_df) }
DatesInView == { filtered_df[i]["Date"] : i \in 1..Len(filtered_df) }

\* C1: the filtered view of both callbacks holds exactly the rows of df
\* whose unit is selected and whose year lies in the inclusive range, in
\* the order of df; it is empty when no unit is selected and when the
\* range is inverted.
C1_FilteredViewExact ==
    callback \in {"update_summary_cards", "render_tab_content"} =>
        /\ filtered_df = SelectedRows
        /\ \A i \in 1..Len(filtered_df) : Selected(filtered_df[i])
        /\ Len(filtered_df) = Cardinality({ i \in 1..Len(df) : Selected(df[i]) })
        /\ unit_dropdown = {} => filtered_df = <<>>
        /\ year_slider[1] > year_slider[2] => filtered_df = <<>>

\* C1 witness: a view that keeps some rows and drops a row of a selected
\* unit for its year.
C1_Witness ==
    /\ callback = "render_tab_content"
    /\ Len(filtered_df) > 0
    /\ \E i \in 1..Len(df) :
          df[i]["Unit"] \in unit_dropdown /\ df[i]["Year"] > year_slider[2]

\* C2 as stated: with a non-empty category selection, the peak category of
\* the summary is a selected category and its sum over the view is at
\* least that of every selected category.
C2_PeakAmongSupplied ==
    (IsCards /\ crime_dropdown # <<>> /\ ~result.raised) =>
        /\ result.peak_crime \in Range(crime_dropdown)
        /\ \A c \in Range(crime_dropdown) :
              ColumnSum(result.peak_crime) >= ColumnSum(c)

\* C2 amended: the peak category of the summary is a canonical category
\* and its sum over the view is at least that of every canonical category,
\* whatever the category selection.
C2_PeakAmongCanonical ==
    IsCards =>
        /\ ~result.raised
        /\ result.peak_crime \in Range(crime_columns)
        /\ \A c \in Range(crime_columns) :
              ColumnSum(result.peak_crime) >= ColumnSum(c)
        /\ result.children[3] = result.peak_crime

\* C2 witness: a summary over a non-empty view whose peak is not among the
\* selected categories.
C2_Witness ==
    /\ IsCards
    /\ Len(filtered_df) > 0
    /\ crime_dropdown # <<>>
    /\ result.peak_crime \notin Range(crime_dropdown)

\* C3 as stated: over an empty view the summary renders total cases and
\* the unit count as 0 and no output is NaN.
C3_EmptyViewPlaceholders ==
    (IsCards /\ filtered_df = <<>>) =>
        /\ Len(result.children) = 4
        /\ result.children[1] = "0"
        /\ result.children[4] = "0"
        /\ \A i \in 1..4 : result.children[i] # "nan"

\* C4 as stated: the seasonal aggregate has the twelve entries 1..12.
C4_SeasonalTwelve ==
    IsTab("tab-analysis") => result.children[1].x = [m \in 1..12 |-> m]

\* C4 amended: the seasonal aggregate has one entry for each month number
\* present in the view, ascending, each the mean of Total_Cases over the
\* rows of that month: at most twelve entries, and none for an empty view.
C4_SeasonalPerMonthPresent ==
    IsTab("tab-analysis") =>
        LET fig == result.children[1]
        IN  /\ fig.x = SortInts(MonthsInView)
            /\ Len(fig.y) = Cardinality(MonthsInView)
            /\ Len(fig.x) <= 12
            /\ \A k \in 1..Len(fig.x) :
                  /\ fig.x[k] \in 1..12
                  /\ ~fig.y[k].nan
                  /\ fig.y[k].num = SumWhere("Total_Cases", LAMBDA r : r["Month_Num"] = fig.x[k])
                  /\ fig.y[k].den = SumSeq([i \in 1..Len(filtered_df) |->
                                       IF filtered_df[i]["Month_Num"] = fig.x[k] THEN 1 ELSE 0])

\* C4 witness: the seasonal chart of a view that has rows, of fewer than
\* twelve months.
C4_Witness ==
    /\ IsTab("tab-analysis")
    /\ Len(filtered_df) > 0
    /\ Len(result.children[1].x) < 12

\* C5: with no unit selected or an inverted year range the summary does
\* not raise: the view has no rows, total cases and the unit count are 0
\* and the peak category is the first canonical category.
C5_InvalidSelectionDegrades ==
    (IsCards /\ (unit_dropdown = {} \/ year_slider[1] > year_slider[2])) =>
        /\ ~result.raised
        /\ filtered_df = <<>>
        /\ result.total_cases = 0
        /\ result.total_units = 0
        /\ result.peak_crime = crime_columns[1]
        /\ Len(result.children) = 4
        /\ result.children[1] = "0"
        /\ result.children[3] = crime_columns[1]
        /\ result.children[4] = "0"

\* C5 witness: a summary with no unit selected, over a dataset that has
\* rows in the year range.
C5_Witness ==
    /\ IsCards
    /\ unit_dropdown = {}
    /\ \E i \in 1..Len(df) :
          year_slider[1] <= df[i]["Year"] /\ df[i]["Year"] <= year_slider[2]

\* C6: the unit totals hold one entry per unit of the view with the sum of
\* its Total_Cases, in non-increasing order of total, cut to the ten
\* largest totals.
C6_UnitTotalsTopTen ==
    callback = "create_top_units_chart" =>
        LET fig == result.children[1]
            n == Len(fig.y)
        IN  /\ Len(fig.x) = n
            /\ n <= 10
            /\ n = Min(10, Cardinality(UnitsInView))
            /\ \A i \in 1..n :
                  /\ fig.y[i] \in UnitsInView
                  /\ fig.x[i] = SumWhere("Total_Cases", LAMBDA r : r["Unit"] = fig.y[i])
            /\ \A i, j \in 1..n : i < j => fig.y[i] # fig.y[j] /\ fig.x[i] >= fig.x[j]
            /\ \A u \in UnitsInView \ Range(fig.y) : \A i \in 1..n :
                  SumWhere("Total_Cases", LAMBDA r : r["Unit"] = u) <= fig.x[i]

\* C6 witness: unit totals of a view of more than ten units.
C6_Witness ==
    /\ callback = "create_top_units_chart"
    /\ Cardinality(UnitsInView) > 10
    /\ Len(result.children[1].y) = 10

\* The series a trend trace plots for category c: per date of the view,
\* ascending, the sum of the column over the rows of that date
TraceOf(tr, c) ==
    /\ tr.name = c
    /\ Len(tr.x) = Cardinality(DatesInView)
    /\ Len(tr.y) = Len(tr.x)
    /\ \A k \in 1..Len(tr.x) :
          /\ tr.x[k] \in DatesInView
          /\ k > 1 => DateOrd(tr.x[k - 1]) < DateOrd(tr.x[k])
          /\ tr.y[k] = SumWhere(c, LAMBDA r : r["Date"] = tr.x[k])
    /\ SumSeq(tr.y) = ColumnSum(c)

\* C7: with no category selected the pie chart aggregates the first five
\* canonical categories and the trend chart Murder, Robbery and Theft;
\* otherwise both aggregate the selected categories, in the order
\* selected.  The pie chart holds per category its sum over the view; the
\* trend chart holds per category one trace of per-date sums, which add up
\* to the sum over the view.
C7_CategoryAggregates ==
    /\ IsTab("tab-overview") =>
          LET pie == result.children[1]
              want == IF crime_dropdown = <<>>
                      THEN <<"Dacoity", "Robbery", "Murder", "Speedy_Trial", "Riot">>
                      ELSE crime_dropdown
          IN  /\ pie.names = want
              /\ Len(pie.values) = Len(want)
              /\ \A i \in 1..Len(want) : pie.values[i] = ColumnSum(want[i])
    /\ IsTab("tab-trends") =>
          LET fig == result.children[1]
              want == IF crime_dropdown = <<>>
                      THEN <<"Murder", "Robbery", "Theft">>
                      ELSE crime_dropdown
          IN  /\ Len(fig.traces) = Len(want)
              /\ \A t \in 1..Len(want) : TraceOf(fig.traces[t], want[t])

\* C7 witness: the overview tab with no category selected, over a view in
\* which a defaulted category has cases.
C7_Witness ==
    /\ IsTab("tab-overview")
    /\ crime_dropdown = <<>>
    /\ \E i \in 1..5 : result.children[1].values[i] > 0

\* C8: no callback changes the loaded dataset, the canonical category
\* list or the unit list.
C8_DatasetUnchanged ==
    [][df' = df /\ crime_columns' = crime_columns /\ police_units' = police_units]_vars

\* C8 witness: a callback has filtered the dataset down to a proper,
\* non-empty part of its rows.
C8_Witness ==
    /\ callback \in {"update_summary_cards", "render_tab_content"}
    /\ Len(filtered_df) > 0
    /\ Len(filtered_df) < Len(df)

\* C9: the peak category is the first category, in canonical order, whose
\* sum over the view is the maximum; over an empty view it is the first
\* canonical category.
C9_TieFirstCanonical ==
    (IsCards /\ ~result.raised) =>
        /\ result.peak_crime \in Range(crime_columns)
        /\ \A j \in 1..Len(crime_columns) :
              ColumnSum(crime_columns[j]) >= ColumnSum(result.peak_crime)
                  => IndexOf(crime_columns, result.peak_crime) <= j
        /\ filtered_df = <<>> => result.peak_crime = crime_columns[1]

\* C9 witness: a non-empty view in which the peak category shares the
\* maximum with a later category and is not the first canonical category.
C9_Witness ==
    /\ IsCards
    /\ Len(filtered_df) > 0
    /\ result.peak_crime # crime_columns[1]
    /\ \E c \in Range(crime_columns) :
          c # result.peak_crime /\ ColumnSum(c) = ColumnSum(result.peak_crime)

\* C10: the raw-data tab shows the first min(50, N) rows of the filtered
\* view in dataset order: never more than 50, none failing the filter, and
\* the count displayed is the number of rows shown.
C10_PreviewFirstFifty ==
    IsTab("tab-data") =>
        LET shown == result.children[1].table
            n == Len(SelectedRows)
        IN  /\ Len(shown) = Min(50, n)
            /\ Len(shown) <= 50
            /\ \A i \in 1..Len(shown) : shown[i] = SelectedRows[i] /\ Selected(shown[i])
            /\ result.children[1].showing = "Showing " \o ToString(Len(shown)) \o " rows"

\* C10 witness: the raw-data tab over a view of more than 50 rows.
C10_Witness ==
    /\ IsTab("tab-data")
    /\ Len(filtered_df) > 50
    /\ Len(result.children[1].table) = 50

=============================================================================
